---- MODULE Spec2Model ----
(***************************************************************************)
(* A model of the 1D kernel of diff-mpm: the node container                *)
(* (diffmpm/node.py), the line-element operators (diffmpm/element.py,      *)
(* class Linear1D) and the particle container (diffmpm/particle.py).       *)
(*                                                                         *)
(* Arrays of shape (n, 1, 1) are functions from 0..n-1 to a number.        *)
(* Nodes.mass and Nodes.acceleration are held per node like the other      *)
(* nodal fields, as every operation of Linear1D uses them.                 *)
(*                                                                         *)
(* Numbers are exact extended rationals <<num, den>>: den > 0 is a finite  *)
(* value in lowest terms, <<1,0>> is +Inf, <<-1,0>> is -Inf and <<0,0>> is *)
(* NaN, with the IEEE-754 rules of jax.numpy for division by zero and for  *)
(* arithmetic on Inf and NaN.  Rounding and the sign of zero are not       *)
(* modelled.                                                               *)
(***************************************************************************)
EXTENDS Integers, Sequences, FiniteSets, TLC

VARIABLES
    nodes,           \* Linear1D.nodes: the Nodes container, one function per field
    boundary_nodes,  \* Linear1D.boundary_nodes: the ids of the fixed nodes
    particles,       \* Particles: one function per field
    dt,              \* the time step the driver passes to the operations
    gravity,         \* the gravity the driver passes to compute_body_force
    nsteps,          \* the number of steps the driver runs
    step,            \* the number of the step in progress (0 while setting up)
    pc,              \* the operation that acted last
    prev,            \* history: nodes as they were before the operation that acted last
    prevp            \* history: particles as they were before that operation

vars == <<nodes, boundary_nodes, particles, dt, gravity, nsteps, step, pc, prev, prevp>>

(***************************************************************************)
(* Bounds of the model.                                                    *)
(***************************************************************************)
MaxElements == 2
MaxParticles == 2

(***************************************************************************)
(* Extended rational arithmetic.                                           *)
(***************************************************************************)
Abs(i) == IF i < 0 THEN -i ELSE i

Sgn(i) == IF i < 0 THEN -1 ELSE IF i > 0 THEN 1 ELSE 0

RECURSIVE GCD(_, _)
GCD(a, b) == IF b = 0 THEN a ELSE GCD(b, a % b)

\* n/d in canonical form; d = 0 gives the IEEE special of the sign of n.
Rat(n, d) ==
    IF d = 0 THEN <<Sgn(n), 0>>
    ELSE LET g == GCD(Abs(n), Abs(d))
         IN  <<(Sgn(d) * n) \div g, Abs(d) \div g>>

R(i) == <<i, 1>>

NaN == <<0, 0>>

IsNaN(a) == a[1] = 0 /\ a[2] = 0

IsInf(a) == a[1] # 0 /\ a[2] = 0

IsFinite(a) == a[2] # 0

RNeg(a) == <<-a[1], a[2]>>

RAdd(a, b) ==
    IF IsInf(a) /\ IsInf(b)
    THEN (IF a[1] = b[1] THEN a ELSE NaN)
    ELSE Rat(a[1] * b[2] + b[1] * a[2], a[2] * b[2])

RSub(a, b) == RAdd(a, RNeg(b))

RMul(a, b) ==
    IF IsInf(a) /\ IsInf(b)
    THEN <<a[1] * b[1], 0>>
    ELSE Rat(a[1] * b[1], a[2] * b[2])

\* jnp.divide: x/0 is +-Inf for x # 0 and NaN for x = 0; x/Inf is 0.
RDiv(a, b) ==
    IF IsNaN(b) THEN NaN
    ELSE IF b[1] = 0 THEN Rat(a[1], 0)
    ELSE Rat(a[1] * b[2] * Sgn(b[1]), a[2] * Abs(b[1]))

\* Comparisons with NaN are false.
RLe(a, b) ==
    /\ ~IsNaN(a)
    /\ ~IsNaN(b)
    /\ IF IsInf(a) \/ IsInf(b)
       THEN (a = b \/ a = <<-1, 0>> \/ b = <<1, 0>>)
       ELSE a[1] * b[2] <= b[1] * a[2]

RLt(a, b) == RLe(a, b) /\ a # b

Half == <<1, 2>>

Two == <<2, 1>>

(***************************************************************************)
(* Inputs of the model.                                                    *)
(***************************************************************************)
\* el_len of the meshes the stepping specification runs on.
ElLens == {1}

\* Particle locations: the half-integers from -1/2 to nelements * 1.
PLocs(ne) == {Rat(k, 2) : k \in -1 .. 2 * ne}

Masses == {R(1), R(2)}

Velocities == {R(1), R(-2)}

Dts == {Half}

Gravities == {R(0)}

StepCounts == {2}

BoundarySets(ne) == {{0}, {0, ne}}

(***************************************************************************)
(* Construction.                                                           *)
(***************************************************************************)
Zeros(n) == [i \in 0 .. n - 1 |-> R(0)]

\* Nodes(nnodes, loc) as Linear1D.__init__ builds it:
\* loc = arange(nelements + 1) * el_len, every other field zero.
NewNodes(ne, L) ==
    [nnodes       |-> ne + 1,
     loc          |-> [i \in 0 .. ne |-> R(i * L)],
     velocity     |-> Zeros(ne + 1),
     mass         |-> Zeros(ne + 1),
     momentum     |-> Zeros(ne + 1),
     f_int        |-> Zeros(ne + 1),
     f_ext        |-> Zeros(ne + 1),
     f_damp       |-> Zeros(ne + 1),
     acceleration |-> Zeros(ne + 1)]

\* Particles(loc, material, element_ids, shapefn): initialize() zeroes the rest.
\* The fields no operation of the kernel reads (density, strain, ...) are left out.
NewParticles(np, loc, ids) ==
    [n             |-> np,
     loc           |-> loc,
     element_ids   |-> ids,
     mass          |-> Zeros(np),
     volume        |-> Zeros(np),
     velocity      |-> Zeros(np),
     stress        |-> Zeros(np),
     f_ext         |-> Zeros(np),
     reference_loc |-> Zeros(np)]

Pids == 0 .. particles.n - 1

NodeIds == 0 .. nodes.nnodes - 1

Init ==
    /\ \E ne \in 1 .. MaxElements, L \in ElLens :
         /\ nodes = NewNodes(ne, L)
         /\ boundary_nodes \in BoundarySets(ne)
         /\ \E np \in 1 .. MaxParticles :
              \E loc \in [0 .. np - 1 -> PLocs(ne)] :
                 particles = NewParticles(np, loc, [p \in 0 .. np - 1 |-> 0])
    /\ dt \in Dts
    /\ gravity \in Gravities
    /\ nsteps \in StepCounts
    /\ step = 0
    /\ pc = "init"
    /\ prev = nodes
    /\ prevp = particles

\* What every operation does besides its own effect: it becomes the last
\* operation, and the nodes and particles it started from are remembered.
Acted(op) ==
    /\ pc' = op
    /\ prev' = nodes
    /\ prevp' = particles
    /\ UNCHANGED <<boundary_nodes, dt, gravity, nsteps>>

(***************************************************************************)
(* Setting the particles up.                                               *)
(***************************************************************************)
\* Particles.set_mass(m) with an array of the particles' shape (a scalar m
\* is the array with m everywhere).
SetMass ==
    /\ \E m \in [Pids -> Masses] : particles' = [particles EXCEPT !.mass = m]
    /\ Acted("set_mass")
    /\ UNCHANGED <<nodes, step>>

\* particles.velocity += v, as the example driver does.
SetVelocity ==
    /\ \E v \in Velocities :
         particles' = [particles EXCEPT
                          !.velocity = [p \in Pids |-> RAdd(particles.velocity[p], v)]]
    /\ Acted("set_velocity")
    /\ UNCHANGED <<nodes, step>>

(***************************************************************************)
(* Localisation and natural coordinates.                                   *)
(***************************************************************************)
Min(S) == CHOOSE x \in S : \A y \in S : x <= y

\* The first index nonzero(size=1, fill_value=-1) reports: the smallest
\* index of S, or the fill value when S is empty.
FirstNonzero(S) == IF S = {} THEN -1 ELSE Min(S)

\* LocateElement with idg taken as the first node with loc > x itself.
LocateElementNoOffset(loc, n, x) ==
    LET idl == n - 1 - FirstNonzero({i \in 0 .. n - 1 : RLe(loc[n - 1 - i], x)})
        idg == FirstNonzero({i \in 0 .. n - 1 : RLt(x, loc[i])})
    IN  IF idl = idg THEN idl ELSE -1

\* LocateElement with idl taken from the nodes with loc < x.
LocateElementStrict(loc, n, x) ==
    LET idl == n - 1 - FirstNonzero({i \in 0 .. n - 1 : RLt(loc[n - 1 - i], x)})
        idg == FirstNonzero({i \in 0 .. n - 1 : RLt(x, loc[i])}) - 1
    IN  IF idl = idg THEN idl ELSE -1

\* f(x) of set_particle_element_ids for one particle at x and node
\* positions loc (n of them): idl counts down from the last node to the
\* last one with loc <= x, idg is the node before the first one with
\* loc > x; the element id is their common value, or -1.
LocateElement(loc, n, x) ==
    LET idl == n - 1 - FirstNonzero({i \in 0 .. n - 1 : RLe(loc[n - 1 - i], x)})
        idg == FirstNonzero({i \in 0 .. n - 1 : RLt(x, loc[i])}) - 1
    IN  IF idl = idg THEN idl ELSE -1

\* Particles.set_particle_element_ids(elements)
SetParticleElementIds ==
    /\ particles' = [particles EXCEPT
                        !.element_ids = [p \in Pids |->
                            LocateElement(nodes.loc, nodes.nnodes, particles.loc[p])]]
    /\ Acted("set_particle_element_ids")
    /\ UNCHANGED <<nodes, step>>

\* An index into an array of n rows: a negative index counts from the end.
Index(i, n) == IF i < 0 THEN i + n ELSE i

\* Linear1D.id_to_node_ids(id): the nodes [id, id + 1], as rows of the node arrays.
IdToNodeIds(id) == <<Index(id, nodes.nnodes), Index(id + 1, nodes.nnodes)>>

\* Linear1D.id_to_node_loc(id): nodes.loc[[id, id + 1]]
IdToNodeLoc(id) == <<nodes.loc[IdToNodeIds(id)[1]], nodes.loc[IdToNodeIds(id)[2]]>>

\* NaturalCoord with the sum of the node positions not halved.
NaturalCoordNoHalf(x, t) ==
    RMul(RSub(x, RAdd(t[1], t[2])), RDiv(Two, RSub(t[2], t[1])))

\* xi of update_particle_natural_coords for a particle at x whose element
\* has its nodes at t: (x - (t0 + t1)/2) * (2 / (t1 - t0)).
NaturalCoord(x, t) ==
    RMul(RSub(x, RDiv(RAdd(t[1], t[2]), Two)), RDiv(Two, RSub(t[2], t[1])))

\* Linear1D.update_particle_natural_coords(particles)
UpdateParticleNaturalCoords ==
    /\ particles' = [particles EXCEPT
                        !.reference_loc = [p \in Pids |->
                            NaturalCoord(particles.loc[p],
                                         IdToNodeLoc(particles.element_ids[p]))]]
    /\ Acted("update_particle_natural_coords")
    /\ UNCHANGED <<nodes, step>>

(***************************************************************************)
(* Shape functions.                                                        *)
(***************************************************************************)
\* Linear1D.shapefn(xi): <<0.5 * (1 - xi), 0.5 * (1 + xi)>>
Shapefn(xi) == <<RMul(Half, RSub(R(1), xi)), RMul(Half, RAdd(R(1), xi))>>

\* Linear1D._shapefn_natural_grad(xi): the derivative of shapefn in xi.
ShapefnNaturalGrad(xi) == <<RNeg(Half), Half>>

\* Linear1D.shapefn_grad(xi, coords): grad_sf.T @ inv(grad_sf @ coords)
ShapefnGrad(xi, coords) ==
    LET grad_sf == ShapefnNaturalGrad(xi)
        jac == RAdd(RMul(grad_sf[1], coords[1]), RMul(grad_sf[2], coords[2]))
        inv == RDiv(R(1), jac)
    IN  <<RMul(grad_sf[1], inv), RMul(grad_sf[2], inv)>>

(***************************************************************************)
(* Scatter updates arr.at[ids].set(vals) and arr.at[ids].add(vals) on the  *)
(* two rows ids of a nodal array.                                          *)
(***************************************************************************)
AtSet(arr, ids, vals) ==
    [i \in DOMAIN arr |->
        IF i = ids[2] THEN vals[2] ELSE IF i = ids[1] THEN vals[1] ELSE arr[i]]

AtAdd(arr, ids, vals) ==
    [i \in DOMAIN arr |->
        RAdd(RAdd(arr[i], IF i = ids[1] THEN vals[1] ELSE R(0)),
             IF i = ids[2] THEN vals[2] ELSE R(0))]

\* mapped_positions[pid] and mapped_nodes[pid] of the particle-to-node operations
MappedPos(pid) == Shapefn(particles.reference_loc[pid])

MappedNodes(pid) == IdToNodeIds(particles.element_ids[pid])

(***************************************************************************)
(* Nodes.reset_values                                                      *)
(***************************************************************************)
\* A reset that leaves the external force in place.
ResetNodesKeepsExternalForce(nd) ==
    [nd EXCEPT !.velocity = Zeros(nd.nnodes),
               !.mass     = Zeros(nd.nnodes),
               !.momentum = Zeros(nd.nnodes),
               !.f_int    = Zeros(nd.nnodes),
               !.f_damp   = Zeros(nd.nnodes)]

ResetNodes(nd) ==
    [nd EXCEPT !.velocity = Zeros(nd.nnodes),
               !.mass     = Zeros(nd.nnodes),
               !.momentum = Zeros(nd.nnodes),
               !.f_int    = Zeros(nd.nnodes),
               !.f_ext    = Zeros(nd.nnodes),
               !.f_damp   = Zeros(nd.nnodes)]

ResetValues ==
    /\ nodes' = ResetNodes(nodes)
    /\ step' = step + 1
    /\ Acted("reset_values")
    /\ UNCHANGED particles

(***************************************************************************)
(* Linear1D.compute_nodal_mass                                             *)
(***************************************************************************)
\* _step(pid, args): mass.at[el_nodes[pid]].set(pmass[pid] * mapped_pos[pid])
MassStep(pid, mass) ==
    AtSet(mass, MappedNodes(pid),
          <<RMul(particles.mass[pid], MappedPos(pid)[1]),
            RMul(particles.mass[pid], MappedPos(pid)[2])>>)

\* lax.fori_loop(0, len(particles), _step, args), from particle pid on
RECURSIVE MassLoop(_, _)
MassLoop(pid, mass) ==
    IF pid >= particles.n THEN mass ELSE MassLoop(pid + 1, MassStep(pid, mass))

ComputeNodalMass ==
    /\ nodes' = [nodes EXCEPT !.mass = MassLoop(0, nodes.mass)]
    /\ Acted("compute_nodal_mass")
    /\ UNCHANGED <<particles, step>>

(***************************************************************************)
(* Linear1D.compute_nodal_momentum                                         *)
(***************************************************************************)
\* _step(pid, args): mom.at[el_nodes[pid]].set(mapped_pos[pid] @ pmom[pid])
\* with pmom = particles.mass * particles.velocity
MomentumStep(pid, mom) ==
    LET pmom == RMul(particles.mass[pid], particles.velocity[pid])
    IN  AtSet(mom, MappedNodes(pid),
              <<RMul(MappedPos(pid)[1], pmom), RMul(MappedPos(pid)[2], pmom)>>)

\* lax.fori_loop over the particle ids of the sequence order, from its
\* k-th entry on.
RECURSIVE MomentumLoop(_, _, _)
MomentumLoop(order, k, mom) ==
    IF k > Len(order) THEN mom
    ELSE MomentumLoop(order, k + 1, MomentumStep(order[k], mom))

\* The order fori_loop(0, len(particles), ...) visits the particles in.
LoopOrder == [k \in 1 .. particles.n |-> k - 1]

\* nodes.velocity = jnp.divide(nodes.momentum, nodes.mass)
DivideByMass(arr, mass) == [i \in DOMAIN arr |-> RDiv(arr[i], mass[i])]

ComputeNodalMomentum ==
    /\ LET mom == MomentumLoop(LoopOrder, 1, nodes.momentum)
       IN  nodes' = [nodes EXCEPT !.momentum = mom,
                                  !.velocity = DivideByMass(mom, nodes.mass)]
    /\ Acted("compute_nodal_momentum")
    /\ UNCHANGED <<particles, step>>

(***************************************************************************)
(* Boundary constraints.                                                   *)
(***************************************************************************)
\* arr.at[boundary_nodes].set(0)
ZeroAt(arr, ids) == [i \in DOMAIN arr |-> IF i \in ids THEN R(0) ELSE arr[i]]

\* apply_boundary_constraints without its last statement, the acceleration.
ApplyBoundaryConstraintsNoAcceleration ==
    /\ nodes' = [nodes EXCEPT
                    !.velocity = ZeroAt(nodes.velocity, boundary_nodes),
                    !.momentum = ZeroAt(nodes.momentum, boundary_nodes)]
    /\ Acted("apply_boundary_constraints")
    /\ UNCHANGED <<particles, step>>

\* Linear1D.apply_boundary_constraints
ApplyBoundaryConstraints ==
    /\ nodes' = [nodes EXCEPT
                    !.velocity     = ZeroAt(nodes.velocity, boundary_nodes),
                    !.momentum     = ZeroAt(nodes.momentum, boundary_nodes),
                    !.acceleration = ZeroAt(nodes.acceleration, boundary_nodes)]
    /\ Acted("apply_boundary_constraints")
    /\ UNCHANGED <<particles, step>>

\* Linear1D.apply_force_boundary_constraints
ApplyForceBoundaryConstraints ==
    /\ nodes' = [nodes EXCEPT
                    !.f_int  = ZeroAt(nodes.f_int, boundary_nodes),
                    !.f_ext  = ZeroAt(nodes.f_ext, boundary_nodes),
                    !.f_damp = ZeroAt(nodes.f_damp, boundary_nodes)]
    /\ Acted("apply_force_boundary_constraints")
    /\ UNCHANGED <<particles, step>>

(***************************************************************************)
(* Nodal forces.                                                           *)
(***************************************************************************)
\* Linear1D.compute_external_force:
\* _step(pid, args): f_ext.at[el_nodes[pid]].add(mapped_pos[pid] @ pf_ext[pid].T)
ExternalForceStep(pid, f_ext) ==
    AtAdd(f_ext, MappedNodes(pid),
          <<RMul(MappedPos(pid)[1], particles.f_ext[pid]),
            RMul(MappedPos(pid)[2], particles.f_ext[pid])>>)

RECURSIVE ExternalForceLoop(_, _)
ExternalForceLoop(pid, f_ext) ==
    IF pid >= particles.n THEN f_ext
    ELSE ExternalForceLoop(pid + 1, ExternalForceStep(pid, f_ext))

ComputeExternalForce ==
    /\ nodes' = [nodes EXCEPT !.f_ext = ExternalForceLoop(0, nodes.f_ext)]
    /\ Acted("compute_external_force")
    /\ UNCHANGED <<particles, step>>

\* Linear1D.compute_body_force:
\* _step(pid, args): f_ext.at[el_nodes[pid]].add(mapped_pos[pid] * pmass * gravity)
\* pmass is the whole array particles.mass, of shape (nparticles, 1, 1), and
\* mapped_pos[pid] has shape (2, 1, 1): the product broadcasts, row i of it
\* being N_i * pmass[i] (pmass[0] for one particle), and has no shape at all
\* with more than two particles.
BodyForceBroadcasts == particles.n \in {1, 2}

BodyForceStep(pid, f_ext) ==
    LET pm(i) == IF particles.n = 1 THEN particles.mass[0] ELSE particles.mass[i]
    IN  AtAdd(f_ext, MappedNodes(pid),
              <<RMul(RMul(MappedPos(pid)[1], pm(0)), gravity),
                RMul(RMul(MappedPos(pid)[2], pm(1)), gravity)>>)

RECURSIVE BodyForceLoop(_, _)
BodyForceLoop(pid, f_ext) ==
    IF pid >= particles.n THEN f_ext
    ELSE BodyForceLoop(pid + 1, BodyForceStep(pid, f_ext))

\* The operation raises when the product cannot be broadcast; the step ends there.
ComputeBodyForce ==
    /\ IF BodyForceBroadcasts
       THEN /\ nodes' = [nodes EXCEPT !.f_ext = BodyForceLoop(0, nodes.f_ext)]
            /\ Acted("compute_body_force")
       ELSE /\ nodes' = nodes
            /\ Acted("error")
    /\ UNCHANGED <<particles, step>>

\* Linear1D.compute_internal_force:
\* _step(pid, args): update = -pvol[pid] * pstress[pid][0] * mapped_grads[pid]
\*                   f_int.at[el_nodes[pid]].set(update)
MappedGrads(pid) ==
    ShapefnGrad(particles.reference_loc[pid], IdToNodeLoc(particles.element_ids[pid]))

InternalForceStep(pid, f_int) ==
    LET w == RMul(RNeg(particles.volume[pid]), particles.stress[pid])
    IN  AtSet(f_int, MappedNodes(pid),
              <<RMul(w, MappedGrads(pid)[1]), RMul(w, MappedGrads(pid)[2])>>)

RECURSIVE InternalForceLoop(_, _)
InternalForceLoop(pid, f_int) ==
    IF pid >= particles.n THEN f_int
    ELSE InternalForceLoop(pid + 1, InternalForceStep(pid, f_int))

ComputeInternalForce ==
    /\ nodes' = [nodes EXCEPT !.f_int = InternalForceLoop(0, nodes.f_int)]
    /\ Acted("compute_internal_force")
    /\ UNCHANGED <<particles, step>>

(***************************************************************************)
(* Integration on the nodes and transfer back to the particles.            *)
(***************************************************************************)
\* Nodes.get_total_force: f_int + f_ext + f_damp
GetTotalForce(nd) ==
    [i \in DOMAIN nd.f_int |-> RAdd(RAdd(nd.f_int[i], nd.f_ext[i]), nd.f_damp[i])]

\* Linear1D.compute_acceleration_velocity(particles, dt)
AccelerationVelocity(nd, h) ==
    LET total_force == GetTotalForce(nd)
        acc == DivideByMass(total_force, nd.mass)
    IN  [nd EXCEPT
            !.acceleration = acc,
            !.velocity = [i \in DOMAIN acc |-> RAdd(nd.velocity[i], RMul(acc[i], h))],
            !.momentum = [i \in DOMAIN acc |->
                             RAdd(nd.momentum[i], RMul(total_force[i], h))]]

ComputeAccelerationVelocity ==
    /\ nodes' = AccelerationVelocity(nodes, dt)
    /\ Acted("compute_acceleration_velocity")
    /\ UNCHANGED <<particles, step>>

\* Particles.update_velocity(elements, dt): velocity += the sum over the two
\* nodes of the element of mapped_positions * (total_force / mass) * dt
\* An increment that takes the first node of the element only.
VelocityIncrementFirstNode(pid) ==
    LET total_force == GetTotalForce(nodes)
        q(i) == RDiv(total_force[MappedNodes(pid)[i]], nodes.mass[MappedNodes(pid)[i]])
    IN  RMul(RMul(MappedPos(pid)[1], q(1)), dt)

VelocityIncrement(pid) ==
    LET total_force == GetTotalForce(nodes)
        q(i) == RDiv(total_force[MappedNodes(pid)[i]], nodes.mass[MappedNodes(pid)[i]])
    IN  RAdd(RMul(RMul(MappedPos(pid)[1], q(1)), dt),
             RMul(RMul(MappedPos(pid)[2], q(2)), dt))

UpdateVelocity ==
    /\ particles' = [particles EXCEPT
                        !.velocity = [p \in Pids |->
                            RAdd(particles.velocity[p], VelocityIncrement(p))]]
    /\ Acted("update_velocity")
    /\ UNCHANGED <<nodes, step>>

\* The driver's integration of the position: loc += velocity * dt
UpdatePosition ==
    /\ particles' = [particles EXCEPT
                        !.loc = [p \in Pids |->
                            RAdd(particles.loc[p], RMul(particles.velocity[p], dt))]]
    /\ Acted("update_position")
    /\ UNCHANGED <<nodes, step>>

(***************************************************************************)
(* The driver: the setting up, then nsteps steps of the USL sequence.      *)
(***************************************************************************)
\* The operation that follows the one that acted last.
NextOp ==
    CASE pc = "init" -> "set_mass"
      [] pc = "set_mass" -> "set_velocity"
      [] pc = "set_velocity" -> "set_particle_element_ids"
      [] pc = "set_particle_element_ids" ->
            IF step = 0 THEN "update_particle_natural_coords"
            ELSE IF step < nsteps THEN "reset_values" ELSE "done"
      [] pc = "update_particle_natural_coords" ->
            IF step = 0 THEN "reset_values" ELSE "set_particle_element_ids"
      [] pc = "reset_values" -> "compute_nodal_mass"
      [] pc = "compute_nodal_mass" -> "compute_nodal_momentum"
      [] pc = "compute_nodal_momentum" -> "apply_boundary_constraints"
      [] pc = "apply_boundary_constraints" -> "compute_external_force"
      [] pc = "compute_external_force" -> "compute_body_force"
      [] pc = "compute_body_force" -> "compute_internal_force"
      [] pc = "compute_internal_force" -> "apply_force_boundary_constraints"
      [] pc = "apply_force_boundary_constraints" -> "compute_acceleration_velocity"
      [] pc = "compute_acceleration_velocity" -> "update_velocity"
      [] pc = "update_velocity" -> "update_position"
      [] pc = "update_position" -> "update_particle_natural_coords"
      [] OTHER -> "done"

Next ==
    \/ NextOp = "set_mass" /\ SetMass
    \/ NextOp = "set_velocity" /\ SetVelocity
    \/ NextOp = "set_particle_element_ids" /\ SetParticleElementIds
    \/ NextOp = "update_particle_natural_coords" /\ UpdateParticleNaturalCoords
    \/ NextOp = "reset_values" /\ ResetValues
    \/ NextOp = "compute_nodal_mass" /\ ComputeNodalMass
    \/ NextOp = "compute_nodal_momentum" /\ ComputeNodalMomentum
    \/ NextOp = "apply_boundary_constraints" /\ ApplyBoundaryConstraints
    \/ NextOp = "compute_external_force" /\ ComputeExternalForce
    \/ NextOp = "compute_body_force" /\ ComputeBodyForce
    \/ NextOp = "compute_internal_force" /\ ComputeInternalForce
    \/ NextOp = "apply_force_boundary_constraints" /\ ApplyForceBoundaryConstraints
    \/ NextOp = "compute_acceleration_velocity" /\ ComputeAccelerationVelocity
    \/ NextOp = "update_velocity" /\ UpdateVelocity
    \/ NextOp = "update_position" /\ UpdatePosition

Spec == Init /\ [][Next]_vars

(***************************************************************************)
(* Notions the properties are stated with.                                 *)
(***************************************************************************)
NElements == nodes.nnodes - 1

\* The particle has an element (its id is not the sentinel -1).
Located(p) == particles.element_ids[p] \in 0 .. NElements - 1

\* The particle lies inside the mesh, its two end nodes included.
InsideMesh(p) ==
    /\ RLe(nodes.loc[0], particles.loc[p])
    /\ RLe(particles.loc[p], nodes.loc[nodes.nnodes - 1])

\* The sum of f[x] over the finite set S.
RECURSIVE SumOver(_, _)
SumOver(S, f) ==
    IF S = {} THEN R(0)
    ELSE LET x == CHOOSE y \in S : TRUE
         IN  RAdd(f[x], SumOver(S \ {x}, f))

\* The located particles whose element has node i, and the shape-function
\* value N_i of such a particle.
HostedAt(i) ==
    {p \in Pids : Located(p) /\ i \in {particles.element_ids[p], particles.element_ids[p] + 1}}

ShapeAt(i, p) ==
    IF i = particles.element_ids[p] THEN MappedPos(p)[1] ELSE MappedPos(p)[2]

\* sum over the particles hosted at node i of N_i(xi_p) * m_p
AccumulatedMass(i) ==
    SumOver(HostedAt(i), [p \in Pids |-> RMul(ShapeAt(i, p), particles.mass[p])])

TotalNodalMass == SumOver(NodeIds, nodes.mass)

TotalParticleMass == SumOver(Pids, particles.mass)

\* The orders the particles can be processed in.
Orders ==
    {o \in [1 .. particles.n -> Pids] : \A p \in Pids : \E k \in 1 .. particles.n : o[k] = p}

NodalFields(nd) ==
    {nd.velocity, nd.mass, nd.momentum, nd.f_int, nd.f_ext, nd.f_damp, nd.acceleration}

(***************************************************************************)
(* C1: after reset_values and compute_nodal_mass on located particles, the *)
(* mass of every node i is the sum, over all the particles hosted by an    *)
(* element with node i, of N_i(xi_p) * m_p: a node shared by two particles *)
(* holds both contributions.  (The statement of the claim; the code keeps  *)
(* the contribution of the last particle only.)                            *)
(***************************************************************************)
NodalMassIsAccumulated ==
    (pc = "compute_nodal_mass" /\ \A p \in Pids : Located(p))
        => \A i \in NodeIds : nodes.mass[i] = AccumulatedMass(i)

(***************************************************************************)
(* C2: mass conservation: after reset_values and compute_nodal_mass with   *)
(* every particle inside the mesh, the nodal masses sum to the sum of the  *)
(* particle masses.  (The statement of the claim.)                         *)
(***************************************************************************)
MassIsConserved ==
    (pc = "compute_nodal_mass" /\ \A p \in Pids : InsideMesh(p))
        => TotalNodalMass = TotalParticleMass

(***************************************************************************)
(* C3: permutation invariance: compute_nodal_momentum leaves the nodal     *)
(* momentum, and the velocity derived from it, that every processing order *)
(* of the same particles gives from the same nodal state.  (The statement  *)
(* of the claim, for particles that all have an element.)                  *)
(***************************************************************************)
MomentumIsOrderIndependent ==
    (pc = "compute_nodal_momentum" /\ \A p \in Pids : Located(p))
        => \A o \in Orders :
              /\ MomentumLoop(o, 1, prev.momentum) = nodes.momentum
              /\ DivideByMass(MomentumLoop(o, 1, prev.momentum), prev.mass) = nodes.velocity

BoundaryNodesStayPinned ==
    (pc = "compute_acceleration_velocity" /\ \A p \in Pids : Located(p))
        => \A b \in boundary_nodes :
              /\ nodes.velocity[b] = R(0)
              /\ nodes.momentum[b] = R(0)
              /\ nodes.f_int[b] = R(0)
              /\ nodes.f_ext[b] = R(0)
              /\ nodes.f_damp[b] = R(0)

(***************************************************************************)
(* C6: a node of mass 0 has velocity 0 after compute_nodal_momentum, and   *)
(* no nodal field is NaN or infinite after compute_nodal_momentum or       *)
(* compute_acceleration_velocity.  (The statement of the claim, for        *)
(* particles that all have an element.)                                    *)
(***************************************************************************)
ZeroMassNodesAreDefined ==
    (\A p \in Pids : Located(p))
        => /\ pc = "compute_nodal_momentum"
                => \A i \in NodeIds : nodes.mass[i] = R(0) => nodes.velocity[i] = R(0)
           /\ pc \in {"compute_nodal_momentum", "compute_acceleration_velocity"}
                => \A f \in NodalFields(nodes) : \A i \in NodeIds : IsFinite(f[i])

(***************************************************************************)
(* Localisation and natural coordinates on their own: any mesh of the      *)
(* lengths below, particles anywhere around it with the element ids their  *)
(* constructor was given, and the two operations in any order.             *)
(***************************************************************************)
LocateElLens == {0, 1, 2}

LocateCounts == {1, 2}

LocateLocs == {Rat(k, 2) : k \in -1 .. 2 * MaxElements + 1}

InitLocate ==
    /\ \E ne \in 1 .. MaxElements, L \in LocateElLens :
         /\ nodes = NewNodes(ne, L)
         /\ boundary_nodes = {0}
         /\ \E np \in LocateCounts :
              \E loc \in [0 .. np - 1 -> LocateLocs], ids \in [0 .. np - 1 -> -1 .. ne - 1] :
                 particles = NewParticles(np, loc, ids)
    /\ dt \in Dts
    /\ gravity \in Gravities
    /\ nsteps \in StepCounts
    /\ step = 0
    /\ pc = "init"
    /\ prev = nodes
    /\ prevp = particles

NextLocate ==
    \/ SetParticleElementIds
    \/ UpdateParticleNaturalCoords

SpecLocate == InitLocate /\ [][NextLocate]_vars

\* The node positions increase strictly.
StrictlyIncreasing ==
    \A i \in NodeIds \ {0} : RLt(nodes.loc[i - 1], nodes.loc[i])

(***************************************************************************)
(* C7: on a mesh of strictly increasing node positions,                    *)
(* set_particle_element_ids gives every particle strictly between the      *)
(* nodes of element e the id e, every particle below the first node or     *)
(* above the last node the id -1, and no particle an id outside            *)
(* -1 .. nelements - 1.                                                    *)
(***************************************************************************)
ElementIdsAreBrackets ==
    (pc = "set_particle_element_ids" /\ StrictlyIncreasing)
        => \A p \in Pids :
              LET x == particles.loc[p]
                  id == particles.element_ids[p]
              IN  /\ \A e \in 0 .. NElements - 1 :
                        (RLt(nodes.loc[e], x) /\ RLt(x, nodes.loc[e + 1])) => id = e
                  /\ (RLt(x, nodes.loc[0]) \/ RLt(nodes.loc[NElements], x)) => id = -1
                  /\ id \in -1 .. NElements - 1

\* C7, the case: after the operation one particle is strictly inside the
\* second element and has its id, another is outside the mesh and has -1.
ElementIdsWereSet ==
    /\ pc = "set_particle_element_ids"
    /\ StrictlyIncreasing
    /\ \E p \in Pids :
          /\ RLt(nodes.loc[1], particles.loc[p])
          /\ NElements > 1
          /\ RLt(particles.loc[p], nodes.loc[2])
          /\ particles.element_ids[p] = 1
    /\ \E p \in Pids :
          /\ RLt(nodes.loc[NElements], particles.loc[p]) \/ RLt(particles.loc[p], nodes.loc[0])
          /\ particles.element_ids[p] = -1

\* The particle is exactly on an interior node, one shared by two elements.
OnSharedNode(p) ==
    \E j \in 1 .. NElements - 1 : particles.loc[p] = nodes.loc[j]

(***************************************************************************)
(* C8 as stated: set_particle_element_ids gives a particle exactly on a    *)
(* node shared by two elements the id -1, like a particle outside.         *)
(***************************************************************************)
SharedNodeIsSentinel ==
    (pc = "set_particle_element_ids" /\ StrictlyIncreasing)
        => \A p \in Pids : OnSharedNode(p) => particles.element_ids[p] = -1

(***************************************************************************)
(* C8 as amended: set_particle_element_ids gives a particle exactly on a   *)
(* node shared by two elements the id of the right-hand element, the one   *)
(* whose left node it is on.                                               *)
(***************************************************************************)
SharedNodeIsRightElement ==
    (pc = "set_particle_element_ids" /\ StrictlyIncreasing)
        => \A p \in Pids : \A j \in 1 .. NElements - 1 :
              particles.loc[p] = nodes.loc[j] => particles.element_ids[p] = j

\* C8, the case: after the operation a particle is on a shared node.
SharedNodeWasLocated ==
    /\ pc = "set_particle_element_ids"
    /\ StrictlyIncreasing
    /\ \E p \in Pids : OnSharedNode(p) /\ particles.element_ids[p] # -1

(***************************************************************************)
(* C9: update_particle_natural_coords gives every particle without an      *)
(* element (id -1) the natural coordinate 0, wherever the particle and the *)
(* nodes are.  (The statement of the claim, for the meshes of strictly     *)
(* increasing node positions.)                                             *)
(***************************************************************************)
UnlocatedCoordIsZero ==
    (pc = "update_particle_natural_coords" /\ StrictlyIncreasing)
        => \A p \in Pids :
              particles.element_ids[p] = -1 => particles.reference_loc[p] = R(0)

(***************************************************************************)
(* C10: for a particle at x with element id e, whose nodes are at x1 < x2, *)
(* update_particle_natural_coords computes xi = (2x - (x1 + x2))/(x2 - x1):*)
(* -1 at the left node, +1 at the right node, and within [-1, 1] for       *)
(* x1 <= x <= x2.                                                          *)
(***************************************************************************)
NaturalCoordOfLocated ==
    pc = "update_particle_natural_coords"
        => \A p \in Pids :
              LET x  == particles.loc[p]
                  e  == particles.element_ids[p]
                  xi == particles.reference_loc[p]
              IN  (e # -1 /\ RLt(nodes.loc[e], nodes.loc[e + 1]))
                  => LET x1 == nodes.loc[e]
                         x2 == nodes.loc[e + 1]
                     IN  /\ xi = RDiv(RSub(RMul(Two, x), RAdd(x1, x2)), RSub(x2, x1))
                         /\ x = x1 => xi = R(-1)
                         /\ x = x2 => xi = R(1)
                         /\ (RLe(x1, x) /\ RLe(x, x2)) => (RLe(R(-1), xi) /\ RLe(xi, R(1)))

\* C10, the case: after the operation one particle is on the left node of
\* its element and has xi = -1, another is on the right node of its element
\* and has xi = +1.
NaturalCoordAtNodes ==
    /\ pc = "update_particle_natural_coords"
    /\ \E p, q \in Pids :
          /\ particles.element_ids[p] # -1
          /\ particles.element_ids[q] # -1
          /\ RLt(nodes.loc[particles.element_ids[p]], nodes.loc[particles.element_ids[p] + 1])
          /\ RLt(nodes.loc[particles.element_ids[q]], nodes.loc[particles.element_ids[q] + 1])
          /\ particles.loc[p] = nodes.loc[particles.element_ids[p]]
          /\ particles.loc[q] = nodes.loc[particles.element_ids[q] + 1]
          /\ particles.reference_loc[p] = R(-1)
          /\ particles.reference_loc[q] = R(1)

(***************************************************************************)
(* Particles.compute_gradient_velocity: for particle pid the sum over the  *)
(* two nodes of its element of dN_i/dx * v_i.                              *)
(***************************************************************************)
IdToNodeVel(id) ==
    <<nodes.velocity[Index(id, nodes.nnodes)], nodes.velocity[Index(id + 1, nodes.nnodes)]>>

ComputeGradientVelocity(pid) ==
    LET dn_dx_     == MappedGrads(pid)
        mapped_vel == IdToNodeVel(particles.element_ids[pid])
    IN  RAdd(RMul(dn_dx_[1], mapped_vel[1]), RMul(dn_dx_[2], mapped_vel[2]))

(***************************************************************************)
(* The steps with loaded particles: the particles come out of their        *)
(* constructor and their material with a mass, a volume, a stress, an      *)
(* external force and a velocity, and with the element that holds them     *)
(* (-1 when none does); gravity acts.  The mesh may be degenerate (element *)
(* length 0).  The natural coordinates are computed, then the steps run.   *)
(***************************************************************************)
ForceElLens == {0, 1}

ForceLocs(ne) == {Rat(k, 2) : k \in 0 .. 2 * ne}

ForceGravities == {R(0), R(-1)}

\* What a particle carries: its mass, volume, stress, external force, velocity.
Loads ==
    {[mass |-> R(1), volume |-> R(1), stress |-> R(1),  f_ext |-> R(1), velocity |-> R(1)],
     [mass |-> R(2), volume |-> R(2), stress |-> R(-1), f_ext |-> R(0), velocity |-> R(-2)]}

\* The elements of the mesh nd that hold the position x, -1 when none does.
Hosts(nd, x) ==
    LET hs == {e \in 0 .. nd.nnodes - 2 : RLe(nd.loc[e], x) /\ RLe(x, nd.loc[e + 1])}
    IN  IF hs = {} THEN {-1} ELSE hs

InitForce ==
    /\ \E ne \in 1 .. MaxElements, L \in ForceElLens :
         /\ nodes = NewNodes(ne, L)
         /\ boundary_nodes = {0}
         /\ \E np \in 1 .. MaxParticles :
              \E loc \in [0 .. np - 1 -> ForceLocs(ne)], load \in [0 .. np - 1 -> Loads] :
                 \E ids \in [0 .. np - 1 -> -1 .. ne - 1] :
                    /\ \A p \in 0 .. np - 1 : ids[p] \in Hosts(nodes, loc[p])
                    /\ particles = [NewParticles(np, loc, ids) EXCEPT
                                       !.mass     = [p \in 0 .. np - 1 |-> load[p].mass],
                                       !.volume   = [p \in 0 .. np - 1 |-> load[p].volume],
                                       !.stress   = [p \in 0 .. np - 1 |-> load[p].stress],
                                       !.f_ext    = [p \in 0 .. np - 1 |-> load[p].f_ext],
                                       !.velocity = [p \in 0 .. np - 1 |-> load[p].velocity]]
    /\ dt \in Dts
    /\ gravity \in ForceGravities
    /\ nsteps \in StepCounts
    /\ step = 0
    /\ pc = "init"
    /\ prev = nodes
    /\ prevp = particles

NextForce ==
    \/ pc = "init" /\ UpdateParticleNaturalCoords
    \/ pc # "init" /\ NextOp = "reset_values" /\ ResetValues
    \/ pc # "init" /\ NextOp = "compute_nodal_mass" /\ ComputeNodalMass
    \/ pc # "init" /\ NextOp = "compute_nodal_momentum" /\ ComputeNodalMomentum
    \/ pc # "init" /\ NextOp = "apply_boundary_constraints" /\ ApplyBoundaryConstraints
    \/ pc # "init" /\ NextOp = "compute_external_force" /\ ComputeExternalForce
    \/ pc # "init" /\ NextOp = "compute_body_force" /\ ComputeBodyForce
    \/ pc # "init" /\ NextOp = "compute_internal_force" /\ ComputeInternalForce
    \/ pc # "init" /\ NextOp = "apply_force_boundary_constraints" /\ ApplyForceBoundaryConstraints
    \/ pc # "init" /\ NextOp = "compute_acceleration_velocity" /\ ComputeAccelerationVelocity
    \/ pc # "init" /\ NextOp = "update_velocity" /\ UpdateVelocity
    \/ pc # "init" /\ NextOp = "update_position" /\ UpdatePosition
    \/ pc # "init" /\ NextOp = "update_particle_natural_coords" /\ UpdateParticleNaturalCoords
    \/ pc # "init" /\ NextOp = "set_particle_element_ids" /\ SetParticleElementIds

SpecForce == InitForce /\ [][NextForce]_vars

\* The node positions of every located particle's element differ.
HostsAreProper ==
    \A p \in Pids :
        Located(p) => RLt(nodes.loc[particles.element_ids[p]],
                          nodes.loc[particles.element_ids[p] + 1])

AllLocated == \A p \in Pids : Located(p)

\* dN_i/dx of the located particle p at node i of its element
GradAt(i, p) ==
    IF i = particles.element_ids[p] THEN MappedGrads(p)[1] ELSE MappedGrads(p)[2]

(***************************************************************************)
(* C11: when all particles are located in elements of positive length and  *)
(* f_int was zero, compute_internal_force leaves at every node i           *)
(* f_int_i = - sum over the particles hosted by an element with node i of  *)
(* V_p * stress_p * dN_i/dx(x_p); several particles at one node are        *)
(* summed.                                                                 *)
(***************************************************************************)
InternalForceIsAccumulated ==
    (pc = "compute_internal_force" /\ AllLocated /\ HostsAreProper
        /\ prev.f_int = Zeros(nodes.nnodes))
        => \A i \in NodeIds :
              nodes.f_int[i] =
                  RNeg(SumOver(HostedAt(i),
                       [p \in Pids |-> RMul(RMul(particles.volume[p], particles.stress[p]),
                                            GradAt(i, p))]))

(***************************************************************************)
(* C12: compute_internal_force never completes having taken from           *)
(* shapefn_grad a gradient that is not finite: on an element whose two     *)
(* nodes coincide shapefn_grad ends the step with an error instead.        *)
(***************************************************************************)
NoSingularGradientIsConsumed ==
    pc = "compute_internal_force"
        => \A p \in Pids :
              Located(p) => /\ IsFinite(MappedGrads(p)[1])
                            /\ IsFinite(MappedGrads(p)[2])
                            /\ IsFinite(ComputeGradientVelocity(p))

(***************************************************************************)
(* C13: right after reset_values the velocity, mass, momentum, f_int,      *)
(* f_ext and f_damp of every node are 0 while the node positions and the   *)
(* number of nodes are what they were; and the mass, the external force    *)
(* and the internal force a step accumulates are what the accumulation     *)
(* gives from zero, whatever the step before left.                         *)
(***************************************************************************)
ResetValuesClears ==
    /\ pc = "reset_values"
        => /\ \A i \in NodeIds :
                /\ nodes.velocity[i] = R(0)
                /\ nodes.mass[i] = R(0)
                /\ nodes.momentum[i] = R(0)
                /\ nodes.f_int[i] = R(0)
                /\ nodes.f_ext[i] = R(0)
                /\ nodes.f_damp[i] = R(0)
           /\ nodes.loc = prev.loc
           /\ nodes.nnodes = prev.nnodes
    /\ pc = "compute_nodal_mass" => nodes.mass = MassLoop(0, Zeros(nodes.nnodes))
    /\ pc = "compute_external_force"
        => nodes.f_ext = ExternalForceLoop(0, Zeros(nodes.nnodes))
    /\ pc = "compute_internal_force"
        => nodes.f_int = InternalForceLoop(0, Zeros(nodes.nnodes))

\* C13, the case: the second step's reset has acted on nodes that carried a
\* mass, a momentum, a velocity, an internal and an external force from the
\* first step.
ResetValuesAfterAStep ==
    /\ pc = "reset_values"
    /\ step = 2
    /\ \E i \in NodeIds : IsFinite(prev.mass[i]) /\ prev.mass[i] # R(0)
    /\ \E i \in NodeIds : IsFinite(prev.momentum[i]) /\ prev.momentum[i] # R(0)
    /\ \E i \in NodeIds : IsFinite(prev.velocity[i]) /\ prev.velocity[i] # R(0)
    /\ \E i \in NodeIds : IsFinite(prev.f_int[i]) /\ prev.f_int[i] # R(0)
    /\ \E i \in NodeIds : IsFinite(prev.f_ext[i]) /\ prev.f_ext[i] # R(0)

\* The nodal acceleration compute_acceleration_velocity computes from nd,
\* interpolated at the located particle p.
InterpolatedAcceleration(nd, p) ==
    LET e   == particles.element_ids[p]
        acc == AccelerationVelocity(nd, dt).acceleration
    IN  RAdd(RMul(MappedPos(p)[1], acc[e]), RMul(MappedPos(p)[2], acc[e + 1]))

(***************************************************************************)
(* C14: update_velocity adds to the velocity of every located particle the *)
(* sum over the two nodes i of its element of                              *)
(* N_i(xi_p) * ((f_int_i + f_ext_i + f_damp_i) / mass_i) * dt, which is dt *)
(* times the interpolation of the nodal acceleration that                  *)
(* compute_acceleration_velocity computes from the same nodes; no other    *)
(* particle field and no nodal field changes.                              *)
(***************************************************************************)
UpdateVelocityInterpolates ==
    pc = "update_velocity"
        => /\ nodes = prev
           /\ [particles EXCEPT !.velocity = prevp.velocity] = prevp
           /\ \A p \in Pids :
                Located(p)
                    => LET e == particles.element_ids[p]
                           a(i) == RDiv(RAdd(RAdd(nodes.f_int[i], nodes.f_ext[i]),
                                             nodes.f_damp[i]),
                                        nodes.mass[i])
                       IN  /\ particles.velocity[p] =
                                 RAdd(prevp.velocity[p],
                                      RAdd(RMul(RMul(ShapeAt(e, p), a(e)), dt),
                                           RMul(RMul(ShapeAt(e + 1, p), a(e + 1)), dt)))
                           /\ particles.velocity[p] =
                                 RAdd(prevp.velocity[p],
                                      RMul(InterpolatedAcceleration(nodes, p), dt))

\* C14, the case: update_velocity has changed the velocity of a particle
\* strictly inside its element, both nodes of which have a finite
\* acceleration that is not 0.
UpdateVelocityActed ==
    /\ pc = "update_velocity"
    /\ \E p \in Pids :
          /\ Located(p)
          /\ RLt(R(-1), particles.reference_loc[p])
          /\ RLt(particles.reference_loc[p], R(1))
          /\ \A i \in {particles.element_ids[p], particles.element_ids[p] + 1} :
                IsFinite(nodes.acceleration[i]) /\ nodes.acceleration[i] # R(0)
          /\ IsFinite(particles.velocity[p])
          /\ particles.velocity[p] # prevp.velocity[p]

(***************************************************************************)
(* C15: when all particles are located in elements of positive length,     *)
(* compute_body_force adds to the f_ext of every node i the sum over the   *)
(* particles hosted by an element with node i of N_i(xi_p) * m_p * g, m_p  *)
(* being the mass of the particle p itself, on top of what f_ext held.     *)
(***************************************************************************)
BodyForceUsesOwnMass ==
    (pc = "compute_body_force" /\ AllLocated /\ HostsAreProper)
        => \A i \in NodeIds :
              nodes.f_ext[i] =
                  RAdd(prev.f_ext[i],
                       SumOver(HostedAt(i),
                           [p \in Pids |-> RMul(RMul(ShapeAt(i, p), particles.mass[p]),
                                                gravity)]))

====
